---- MODULE Spec2Model ----
(***************************************************************************)
(* Cistercian numeral codec: the encoder of src/cistercian_utils.py and    *)
(* the decoder of src/ocr.py, as state machines over calls.                *)
(*                                                                         *)
(* A raster produced by the encoder is the set of line primitives handed   *)
(* to cv2.line, each <<x1, y1, x2, y2, thickness>> in argument order.      *)
(***************************************************************************)
EXTENDS Integers, Sequences, FiniteSets, TLC

VARIABLES enc, dec, det, files

vars == <<enc, dec, det, files>>

(***************************************************************************)
(* Program constants.                                                      *)
(***************************************************************************)
MaxNumber == 9999

Width == 300

Height == 400

SymbolSize == 50

LineThickness == 3

(***************************************************************************)
(* Bounds of the model.                                                    *)
(***************************************************************************)
\* How far outside [0, MaxNumber] the encoder's inputs reach, on each side.
Excess == 3

\* The most contours a quadrant's region holds.
MaxContours == 2

\* The number of encode calls running at once, beside one decode call.
NumEncoders == 2

QuadrantNames == {"top-left", "top-right", "bottom-left", "bottom-right"}

Places == {"units", "tens", "hundreds", "thousands"}

(***************************************************************************)
(* The encoder: src/cistercian_utils.py                                    *)
(***************************************************************************)
Line(x1, y1, x2, y2, t) == <<x1, y1, x2, y2, t>>

\* img.shape of create_blank_image(300, 400) is (height, width) = (400, 300)
center_x == Width \div 2

center_y == Height \div 2

\* int(height // 1.5): floor(height / 1.5) = floor(2 * height / 3)
stem_height == (2 * Height) \div 3

stem_top == center_y - (stem_height \div 2)

stem_bottom == center_y + (stem_height \div 2)

Stem == Line(center_x, stem_top, center_x, stem_bottom, LineThickness)

\* A mutant of the range check: the upper limit is off by one.
OutOfRangeOffByOne(number) == number < 0 \/ number > MaxNumber + 1

\* number < 0 or number > 9999
OutOfRange(number) == number < 0 \/ number > MaxNumber

\* 'right' in quadrant, over the four names the encoder passes
x_dir(quadrant) == IF quadrant \in {"top-right", "bottom-right"} THEN 1 ELSE -1

\* 'bottom' in quadrant
y_dir(quadrant) == IF quadrant \in {"bottom-left", "bottom-right"} THEN 1 ELSE -1

\* The if/elif chain of draw_digit, with the two direction signs already taken
\* from the quadrant: the cv2.line calls made for each digit.
DigitStrokes(digit, cx, y_pos, xd, yd, thickness) ==
    LET end_x == cx + xd * SymbolSize
        end_y == y_pos - yd * SymbolSize
    IN  CASE digit = 1 -> {Line(cx, y_pos, end_x, y_pos, thickness)}
          [] digit = 2 -> {Line(cx, end_y, end_x, end_y, thickness)}
          [] digit = 3 -> {Line(cx, y_pos, end_x, end_y, thickness)}
          [] digit = 4 -> {Line(cx, end_y, end_x, y_pos, thickness)}
          [] digit = 5 -> {Line(cx, end_y, end_x, y_pos, thickness),
                           Line(cx, y_pos, end_x, y_pos, thickness)}
          [] digit = 6 -> {Line(end_x, y_pos, end_x, end_y, thickness)}
          [] digit = 7 -> {Line(cx, y_pos, end_x, y_pos, thickness),
                           Line(end_x, y_pos, end_x, end_y, thickness)}
          [] digit = 8 -> {Line(cx, end_y, end_x, end_y, thickness),
                           Line(end_x, y_pos, end_x, end_y, thickness)}
          [] digit = 9 -> {Line(cx, y_pos, end_x, y_pos, thickness),
                           Line(end_x, y_pos, end_x, end_y, thickness),
                           Line(end_x, end_y, cx, end_y, thickness)}
          [] OTHER     -> {}

\* draw_digit with digit 8 drawn as digit 9 is.
DrawDigitEightAsNine(digit, cx, y_pos, quadrant, thickness) ==
    IF digit = 0 THEN {}
    ELSE DigitStrokes(IF digit = 8 THEN 9 ELSE digit, cx, y_pos,
                      x_dir(quadrant), y_dir(quadrant), thickness)

\* draw_digit with the horizontal direction not taken from the quadrant.
DrawDigitNoXDir(digit, cx, y_pos, quadrant, thickness) ==
    IF digit = 0 THEN {}
    ELSE DigitStrokes(digit, cx, y_pos, 1, y_dir(quadrant), thickness)

\* draw_digit with a tick drawn on the stem for digit 0.
DrawDigitZeroTick(digit, cx, y_pos, quadrant, thickness) ==
    IF digit = 0
    THEN {Line(cx, y_pos, cx + x_dir(quadrant) * SymbolSize, y_pos, thickness)}
    ELSE DigitStrokes(digit, cx, y_pos, x_dir(quadrant), y_dir(quadrant), thickness)

\* draw_digit: the primitives it draws for digit at the anchor (cx, y_pos);
\* digit 0 returns before drawing anything.
DrawDigit(digit, cx, y_pos, quadrant, thickness) ==
    IF digit = 0 THEN {}
    ELSE DigitStrokes(digit, cx, y_pos, x_dir(quadrant), y_dir(quadrant), thickness)

\* units, tens, hundreds, thousands of draw_cistercian_symbol
PlaceDigit(number, place) ==
    CASE place = "units"     -> number % 10
      [] place = "tens"      -> (number \div 10) % 10
      [] place = "hundreds"  -> (number \div 100) % 10
      [] OTHER               -> (number \div 1000) % 10

\* The quadrant draw_cistercian_symbol passes to draw_digit for each place.
EncQuadrant(place) ==
    CASE place = "units"     -> "top-right"
      [] place = "tens"      -> "top-left"
      [] place = "hundreds"  -> "bottom-right"
      [] OTHER               -> "bottom-left"

\* The anchor draw_cistercian_symbol passes: stem_top above, stem_bottom below.
EncAnchor(place) ==
    IF place \in {"units", "tens"} THEN stem_top ELSE stem_bottom

\* The order of the four draw_digit calls.
NextPlace(place) ==
    CASE place = "units"     -> "tens"
      [] place = "tens"      -> "hundreds"
      [] place = "hundreds"  -> "thousands"
      [] OTHER               -> "end"

\* draw_cistercian_symbol on a blank canvas, as one function
DrawCistercianSymbol(number) ==
    {Stem} \cup UNION {DrawDigit(PlaceDigit(number, p), center_x, EncAnchor(p),
                                 EncQuadrant(p), LineThickness) : p \in Places}

(***************************************************************************)
(* Encode calls.  enc[c] is the state of call c:                           *)
(*   entry    the function called: number_to_cistercian_image, or          *)
(*            draw_cistercian_symbol on a blank canvas the caller made     *)
(*   number   its argument                                                 *)
(*   pc       the statement the call is at                                 *)
(*   created  whether the canvas exists; img its primitives                *)
(*   marks    per quadrant, what the draw_digit call for it drew           *)
(*   placed   per place value, the quadrant passed to draw_digit           *)
(*   result   the value returned; error the exception raised               *)
(* files maps the number in a file name created_numbers/cistercian_<n>.png *)
(* to what a call wrote there and which call wrote it last.  The files     *)
(* the import-time generate_all_cistercian_templates() wrote are           *)
(* TemplateFile below; files holds only what calls wrote over them.        *)
(***************************************************************************)
Entries == {"number_to_cistercian_image", "draw_cistercian_symbol"}

NoResult == [status |-> "pending", image |-> {}]

NoLookup == [done |-> FALSE, found |-> FALSE, value |-> 0]

EncCall(entry, number) ==
    [entry   |-> entry,
     number  |-> number,
     pc      |-> IF entry = "number_to_cistercian_image" THEN "start" ELSE "symbol",
     created |-> entry = "draw_cistercian_symbol",
     img     |-> {},
     marks   |-> [q \in QuadrantNames |-> {}],
     placed  |-> [p \in Places |-> "none"],
     result  |-> NoResult,
     error   |-> "none",
     lookup  |-> NoLookup]

\* number_to_cistercian_image: the range check, before the canvas is created
EncValidate(c) ==
    /\ enc[c].pc = "start"
    /\ enc' = [enc EXCEPT ![c] =
                 IF OutOfRange(@.number)
                 THEN [@ EXCEPT !.pc = "raised", !.error = "ValueError"]
                 ELSE [@ EXCEPT !.pc = "create"]]
    /\ UNCHANGED <<dec, det, files>>

\* create_blank_image(300, 400): a white canvas, nothing drawn
EncCreate(c) ==
    /\ enc[c].pc = "create"
    /\ enc' = [enc EXCEPT ![c] = [@ EXCEPT !.pc = "symbol", !.created = TRUE, !.img = {}]]
    /\ UNCHANGED <<dec, det, files>>

\* draw_cistercian_symbol: its own range check, then the stem
EncDrawStem(c) ==
    /\ enc[c].pc = "symbol"
    /\ enc' = [enc EXCEPT ![c] =
                 IF OutOfRange(@.number)
                 THEN [@ EXCEPT !.pc = "raised", !.error = "ValueError"]
                 ELSE [@ EXCEPT !.pc = "units", !.img = @ \cup {Stem}]]
    /\ UNCHANGED <<dec, det, files>>

\* The four draw_digit calls of draw_cistercian_symbol, in order
EncDrawDigit(c) ==
    /\ enc[c].pc \in Places
    /\ LET place == enc[c].pc
           q     == EncQuadrant(place)
           drawn == DrawDigit(PlaceDigit(enc[c].number, place), center_x,
                              EncAnchor(place), q, LineThickness)
           after == NextPlace(place)
       IN  enc' = [enc EXCEPT ![c] =
                     [@ EXCEPT !.img    = @ \cup drawn,
                               !.marks  = [@ EXCEPT ![q] = drawn],
                               !.placed = [@ EXCEPT ![place] = q],
                               !.pc     = IF after # "end" THEN after
                                          ELSE IF enc[c].entry = "draw_cistercian_symbol"
                                               THEN "return" ELSE "save"]]
    /\ UNCHANGED <<dec, det, files>>

\* A mutant: every call saves to the one file cistercian_0.png.
FileKeyFixed(number) == 0

\* The file name save_image_to_file is given: cistercian_<number>.png
FileKey(number) == number

\* save_image_to_file(img, f'cistercian_{number}.png'): cv2.imwrite over the file
EncSave(c) ==
    /\ enc[c].pc = "save"
    /\ files' = (FileKey(enc[c].number) :> [content |-> enc[c].img, writer |-> c])
                 @@ files
    /\ enc' = [enc EXCEPT ![c] = [@ EXCEPT !.pc = "return"]]
    /\ UNCHANGED <<dec, det>>

\* return encode_image_to_base64(img), or return img from draw_cistercian_symbol:
\* either way the caller gets the canvas's content.
EncReturn(c) ==
    /\ enc[c].pc = "return"
    /\ enc' = [enc EXCEPT ![c] =
                 [@ EXCEPT !.pc = "done",
                           !.result = [status |-> "ok", image |-> enc[c].img]]]
    /\ UNCHANGED <<dec, det, files>>

EncStep(c) ==
    \/ EncValidate(c)
    \/ EncCreate(c)
    \/ EncDrawStem(c)
    \/ EncDrawDigit(c)
    \/ EncSave(c)
    \/ EncReturn(c)

\* The numbers given to the encoder: all of [0, 9999] and Excess numbers on
\* each side of it.
EncNumbers == (0 - Excess) .. (MaxNumber + Excess)

NoFiles == [k \in {} |-> [content |-> {}, writer |-> 0]]

InitEnc ==
    /\ \E e \in Entries, n \in EncNumbers : enc = <<EncCall(e, n)>>
    /\ dec = <<>>
    /\ det = <<>>
    /\ files = NoFiles

NextEnc ==
    \/ \E c \in DOMAIN enc : EncValidate(c)
    \/ \E c \in DOMAIN enc : EncCreate(c)
    \/ \E c \in DOMAIN enc : EncDrawStem(c)
    \/ \E c \in DOMAIN enc : EncDrawDigit(c)
    \/ \E c \in DOMAIN enc : EncSave(c)
    \/ \E c \in DOMAIN enc : EncReturn(c)

SpecEnc == InitEnc /\ [][NextEnc]_vars

(***************************************************************************)
(* The reference renders and the exact-match index over them.              *)
(***************************************************************************)
\* for number in range(1, 10000) of generate_all_cistercian_templates
TemplateNumbers == 1 .. MaxNumber

\* A mutant: the generation pass starts at 2.
TemplateRenderShifted(number) == DrawCistercianSymbol(number + 1)

\* The raster generate_all_cistercian_templates writes for number: a blank
\* canvas with draw_cistercian_symbol(img, number) on it.
TemplateRender(number) == DrawCistercianSymbol(number)

\* The index's key for a raster: the content hash of the canonical raster,
\* which two rasters share exactly when their content is the same.
ContentKey(raster) == raster

\* build(reference_renders): each reference render's key mapped to its value,
\* inserted in increasing order of the value; a later insert replaces an
\* earlier one under the same key.
RECURSIVE BuildIndex(_, _)
BuildIndex(lo, hi) ==
    IF lo > hi THEN [k \in {} |-> 0]
    ELSE IF lo = hi THEN ContentKey(TemplateRender(lo)) :> lo
    ELSE LET mid == (lo + hi) \div 2
         IN  BuildIndex(mid + 1, hi) @@ BuildIndex(lo, mid)

\* The index built once from the files of the generation pass.
ExactMatchIndex == BuildIndex(1, MaxNumber)

\* lookup(raster) -> value | NotFound
ExactLookup(raster) ==
    LET key == ContentKey(raster)
    IN  IF key \in DOMAIN ExactMatchIndex
        THEN [done |-> TRUE, found |-> TRUE, value |-> ExactMatchIndex[key]]
        ELSE [done |-> TRUE, found |-> FALSE, value |-> 0]

\* Decoding an encoder's output through the exact-match index
ExactDecode(c) ==
    /\ enc[c].pc = "done"
    /\ ~enc[c].lookup.done
    /\ enc' = [enc EXCEPT ![c] = [@ EXCEPT !.lookup = ExactLookup(enc[c].result.image)]]
    /\ UNCHANGED <<dec, det, files>>

NextRound ==
    \/ NextEnc
    \/ \E c \in DOMAIN enc : ExactDecode(c)

SpecRound == InitEnc /\ [][NextRound]_vars

(***************************************************************************)
(* The decoder: src/ocr.py                                                 *)
(*                                                                         *)
(* preprocess_image, cv2.findContours, cv2.boundingRect, cv2.contourArea   *)
(* and cv2.approxPolyDP are OpenCV's.  A binary raster is modelled by what *)
(* they report of it:                                                      *)
(*   found, rect   whether findContours finds a contour in the whole       *)
(*                 raster, and the bounding rectangle <<x, y, w, h>> of    *)
(*                 all of them                                             *)
(*   content[q]    for the region find_stem_and_quadrants names q:         *)
(*                 filled, the number of non-zero pixels in it, and        *)
(*                 contours, one record per contour found in it: the       *)
(*                 bounding rectangle's w and h, the contour's area and    *)
(*                 the points approxPolyDP reduces it to.                  *)
(***************************************************************************)
\* The value of a foreground pixel: maxval of cv2.threshold, cv2.adaptiveThreshold
PixelOn == 255

\* np.sum(quadrant_img) < 100
EmptySumThreshold == 100

\* if w < 20 or h < 20
MinBoxSize == 20

\* cv2.resize(image, (300, 400)): every binary raster is 300 wide, 400 high
RasterWidth == 300

RasterHeight == 400

Max(a, b) == IF a > b THEN a ELSE b

Min(a, b) == IF a < b THEN a ELSE b

\* A mutant of the segmenter: a missing contour list leaves an empty box.
BoundingBoxNoFallback(binary_image) ==
    IF ~binary_image.found THEN <<0, 0, 0, 0>>
    ELSE IF binary_image.rect[3] < MinBoxSize \/ binary_image.rect[4] < MinBoxSize
         THEN <<0, 0, RasterWidth, RasterHeight>>
         ELSE binary_image.rect

\* A mutant of the segmenter: a box of exactly the minimum size is refused.
BoundingBoxStrictSize(binary_image) ==
    IF ~binary_image.found THEN <<0, 0, RasterWidth, RasterHeight>>
    ELSE IF binary_image.rect[3] <= MinBoxSize \/ binary_image.rect[4] <= MinBoxSize
         THEN <<0, 0, RasterWidth, RasterHeight>>
         ELSE binary_image.rect

\* find_stem_and_quadrants, lines 80-106: the box <<x, y, w, h>> to split
BoundingBox(binary_image) ==
    IF ~binary_image.found THEN <<0, 0, RasterWidth, RasterHeight>>
    ELSE IF binary_image.rect[3] < MinBoxSize \/ binary_image.rect[4] < MinBoxSize
         THEN <<0, 0, RasterWidth, RasterHeight>>
         ELSE binary_image.rect

\* find_stem_and_quadrants, lines 108-127: the four (x1, y1, x2, y2)
Quadrants(box) ==
    LET x  == box[1]
        y  == box[2]
        w  == box[3]
        h  == box[4]
        cx == x + (w \div 2)
        cy == y + (h \div 2)
        stem_x == cx
    IN  [q \in QuadrantNames |->
            CASE q = "top-left"     -> <<x, y, stem_x, cy>>
              [] q = "top-right"    -> <<stem_x, y, x + w, cy>>
              [] q = "bottom-left"  -> <<x, cy, stem_x, y + h>>
              [] OTHER              -> <<stem_x, cy, x + w, y + h>>]

\* find_stem_and_quadrants: {'stem': ..., 'quadrants': ...}
find_stem_and_quadrants(binary_image) ==
    LET box == BoundingBox(binary_image)
        sx  == box[1] + (box[3] \div 2)
    IN  [stem      |-> <<sx, box[2], sx, box[2] + box[4]>>,
         quadrants |-> Quadrants(box)]

\* The pixels of binary_image[y1:y2, x1:x2]: the content of the region the
\* segmentation of this raster gives these coordinates, nothing elsewhere.
RegionContent(binary_image, coords) ==
    LET quads == Quadrants(BoundingBox(binary_image))
    IN  IF \E q \in QuadrantNames : quads[q] = coords
        THEN binary_image.content[CHOOSE q \in QuadrantNames : quads[q] = coords]
        ELSE [filled |-> 0, contours |-> <<>>]

(***************************************************************************)
(* str(quadrant_coords), a tuple of ints, as a sequence of characters.     *)
(***************************************************************************)
DigitChar(d) == <<"0", "1", "2", "3", "4", "5", "6", "7", "8", "9">>[d + 1]

RECURSIVE NatStr(_)
NatStr(n) == IF n < 10 THEN <<DigitChar(n)>>
             ELSE NatStr(n \div 10) \o <<DigitChar(n % 10)>>

IntStr(n) == IF n < 0 THEN <<"-">> \o NatStr(0 - n) ELSE NatStr(n)

\* "(x1, y1, x2, y2)"
TupleStr(coords) ==
    <<"(">> \o IntStr(coords[1]) \o <<",", " ">> \o IntStr(coords[2])
            \o <<",", " ">> \o IntStr(coords[3]) \o <<",", " ">> \o IntStr(coords[4])
            \o <<")">>

NameChars(name) ==
    CASE name = "top-left"     -> <<"t", "o", "p", "-", "l", "e", "f", "t">>
      [] name = "top-right"    -> <<"t", "o", "p", "-", "r", "i", "g", "h", "t">>
      [] name = "bottom-left"  -> <<"b", "o", "t", "t", "o", "m", "-", "l", "e", "f", "t">>
      [] OTHER -> <<"b", "o", "t", "t", "o", "m", "-", "r", "i", "g", "h", "t">>

\* sub in s
Contains(s, sub) ==
    \E i \in 1 .. (Len(s) - Len(sub) + 1) :
        \A j \in 1 .. Len(sub) : s[i + j - 1] = sub[j]

\* detect_features_in_quadrant, lines 234-243: quadrant_name
QuadrantName(quadrant_coords) ==
    LET text == TupleStr(quadrant_coords)
    IN  IF Contains(text, NameChars("top-left")) THEN "top-left"
        ELSE IF Contains(text, NameChars("top-right")) THEN "top-right"
        ELSE IF Contains(text, NameChars("bottom-left")) THEN "bottom-left"
        ELSE IF Contains(text, NameChars("bottom-right")) THEN "bottom-right"
        ELSE "unknown"

(***************************************************************************)
(* detect_features_in_quadrant.  Ratios are compared as fractions:         *)
(* w / h > 2.5 is 2 * w > 5 * h, fill_ratio < 0.02 is 50 * filled < area.  *)
(***************************************************************************)
\* lines 206-211: the class the bounding rectangle's aspect ratio gives
ShapeClass(contour, quadrant_area) ==
    LET w == contour.w
        h == contour.h
    IN  IF h <= 0 THEN "vertical"                      \* aspect_ratio = 0 < 0.4
        ELSE IF 2 * w > 5 * h THEN "horizontal"        \* aspect_ratio > 2.5
        ELSE IF 5 * w < 2 * h THEN "vertical"          \* aspect_ratio < 0.4
        ELSE IF 4 * h < 5 * w /\ 5 * w < 6 * h         \* 0.8 < aspect_ratio < 1.2
                /\ 10 * contour.area > quadrant_area   \* area > 0.1 * quadrant_area
             THEN "rectangle"
        ELSE "other"

\* lines 213-226: approxPolyDP gives two points at an angle in (30, 60) or
\* (120, 150) degrees, that is dx # 0 and 1/sqrt(3) < |dy| / |dx| < sqrt(3)
IsDiagonal(contour) ==
    /\ Len(contour.approx) = 2
    /\ LET dx == contour.approx[2][1] - contour.approx[1][1]
           dy == contour.approx[2][2] - contour.approx[1][2]
       IN  /\ dx # 0
           /\ dx * dx < 3 * dy * dy
           /\ dy * dy < 3 * dx * dx

RECURSIVE CountWhere(_, _, _)
\* The for loop over the contours: how many of them fall in the class
CountWhere(contours, quadrant_area, class) ==
    IF contours = <<>> THEN 0
    ELSE (IF class = "diagonal"
          THEN (IF IsDiagonal(Head(contours)) THEN 1 ELSE 0)
          ELSE (IF ShapeClass(Head(contours), quadrant_area) = class THEN 1 ELSE 0))
         + CountWhere(Tail(contours), quadrant_area, class)

\* lines 184-226: the counts and the fill of a region
Features(content, quadrant_area) ==
    [horizontal_lines |-> CountWhere(content.contours, quadrant_area, "horizontal"),
     vertical_lines   |-> CountWhere(content.contours, quadrant_area, "vertical"),
     diagonal_lines   |-> CountWhere(content.contours, quadrant_area, "diagonal"),
     rectangles       |-> CountWhere(content.contours, quadrant_area, "rectangle"),
     num_contours     |-> Len(content.contours),
     filled_area      |-> content.filled,
     quadrant_area    |-> quadrant_area]

NoFeatures ==
    [horizontal_lines |-> 0, vertical_lines |-> 0, diagonal_lines |-> 0,
     rectangles |-> 0, num_contours |-> 0, filled_area |-> 0, quadrant_area |-> 0]

\* lines 252-320: the rules after the empty test, first match first
DigitRules(f, quadrant_name, pixel_sum) ==
    LET horizontal_lines == f.horizontal_lines
        vertical_lines   == f.vertical_lines
        diagonal_lines   == f.diagonal_lines
        rectangles       == f.rectangles
        num_contours     == f.num_contours
        filled           == f.filled_area
        area             == f.quadrant_area
    IN  IF horizontal_lines >= 1 /\ vertical_lines = 0 /\ diagonal_lines = 0 THEN 1
        ELSE IF diagonal_lines >= 1 /\ horizontal_lines = 0 /\ vertical_lines = 0
             THEN (IF quadrant_name \in {"top-right", "bottom-left"} THEN 2 ELSE 6)
        ELSE IF horizontal_lines >= 1 /\ diagonal_lines >= 1
             THEN (IF quadrant_name \in {"top-right", "bottom-left"} THEN 3 ELSE 7)
        ELSE IF horizontal_lines >= 1 /\ vertical_lines >= 1 THEN 4
        \* rectangles >= 1 or fill_ratio > 0.3 or num_contours >= 3
        ELSE IF rectangles >= 1 \/ 10 * filled > 3 * area \/ num_contours >= 3 THEN 5
        ELSE IF diagonal_lines >= 2 THEN 8
        \* rectangles >= 1 or fill_ratio > 0.25
        ELSE IF rectangles >= 1 \/ 4 * filled > area THEN 9
        ELSE IF vertical_lines >= 1 THEN 1
        ELSE IF diagonal_lines >= 1 THEN 2
        ELSE IF horizontal_lines >= 1 THEN 1
        \* fill_ratio > 0.1
        ELSE IF 10 * filled > area THEN 5
        \* np.sum(quadrant_img) > 0
        ELSE IF pixel_sum > 0 THEN 1
        ELSE 0

\* A mutant of the cascade: the empty test forgets the fill ratio.
CascadeNoFillTest(f, quadrant_name, pixel_sum) ==
    IF f.num_contours = 0 THEN 0
    ELSE DigitRules(f, quadrant_name, pixel_sum)

\* lines 247-320: fill_ratio < 0.02 or num_contours == 0 gives 0, then the rules
Cascade(f, quadrant_name, pixel_sum) ==
    IF 50 * f.filled_area < f.quadrant_area \/ f.num_contours = 0 THEN 0
    ELSE DigitRules(f, quadrant_name, pixel_sum)

\* detect_features_in_quadrant: the digit, with what it was decided from
\* (exit: the return statement taken)
DetectInfo(binary_image, quadrant_coords) ==
    LET x1 == Max(0, Min(quadrant_coords[1], RasterWidth - 1))
        x2 == Max(0, Min(quadrant_coords[3], RasterWidth))
        y1 == Max(0, Min(quadrant_coords[2], RasterHeight - 1))
        y2 == Max(0, Min(quadrant_coords[4], RasterHeight))
        content       == RegionContent(binary_image, quadrant_coords)
        pixel_sum     == PixelOn * content.filled
        quadrant_area == (y2 - y1) * (x2 - x1)
        f             == Features(content, quadrant_area)
        name          == QuadrantName(quadrant_coords)
    IN  IF x2 <= x1 \/ y2 <= y1
        THEN [digit |-> 0, exit |-> "invalid", features |-> NoFeatures, quadrant_name |-> "unknown"]
        ELSE IF pixel_sum < EmptySumThreshold
        THEN [digit |-> 0, exit |-> "empty", features |-> NoFeatures, quadrant_name |-> "unknown"]
        ELSE IF content.contours = <<>>
        THEN [digit |-> 0, exit |-> "no contours", features |-> NoFeatures, quadrant_name |-> "unknown"]
        ELSE [digit |-> Cascade(f, name, pixel_sum), exit |-> "cascade",
              features |-> f, quadrant_name |-> name]

detect_features_in_quadrant(binary_image, quadrant_coords) ==
    DetectInfo(binary_image, quadrant_coords).digit

(***************************************************************************)
(* The rasters given to the decoder.                                       *)
(***************************************************************************)
\* Contours as OpenCV reports them: a bar along x, a bar along y, a stroke
\* at 45 and one at 135 degrees, a square block, an irregular blob.
HBar     == [w |-> 50, h |-> 6,  area |-> 200,  approx |-> <<<<0, 2>>, <<49, 2>>>>]

VBar     == [w |-> 6,  h |-> 50, area |-> 200,  approx |-> <<<<2, 0>>, <<2, 49>>>>]

Diag     == [w |-> 50, h |-> 50, area |-> 300,  approx |-> <<<<0, 0>>, <<49, 49>>>>]

AntiDiag == [w |-> 50, h |-> 50, area |-> 300,  approx |-> <<<<49, 0>>, <<0, 49>>>>]

Block    == [w |-> 40, h |-> 40, area |-> 1521,
             approx |-> <<<<0, 0>>, <<39, 0>>, <<39, 39>>, <<0, 39>>>>]

Blob     == [w |-> 40, h |-> 30, area |-> 700,
             approx |-> <<<<0, 0>>, <<39, 5>>, <<30, 29>>, <<8, 20>>, <<2, 12>>>>]

ContourShapes == {HBar, VBar, Diag, AntiDiag, Block, Blob}

\* Numbers of foreground pixels in a region: on both sides of each fill
\* ratio the cascade tests, for a region of 150 x 200 and for one of 52 x 136.
FilledLevels == {100, 600, 1800, 2200, 8000, 9500}

ContourSeqs(n) == UNION {[1 .. k -> ContourShapes] : k \in 1 .. n}

EmptyContent == [filled |-> 0, contours |-> <<>>]

\* A region with a foreground pixel has a contour, and one without has none.
AllContents ==
    {EmptyContent} \cup
    {[filled |-> f, contours |-> cs] : f \in FilledLevels, cs \in ContourSeqs(MaxContours)}

\* What the decoder's runs are given in each region.
DecContents ==
    {EmptyContent,
     [filled |-> 100,  contours |-> <<HBar>>],
     [filled |-> 600,  contours |-> <<HBar>>],
     [filled |-> 600,  contours |-> <<Diag>>],
     [filled |-> 1800, contours |-> <<HBar, VBar>>],
     [filled |-> 2200, contours |-> <<Block>>]}

\* The content fits the region with these coordinates.
Fits(content, coords) ==
    /\ content.filled <= (coords[3] - coords[1]) * (coords[4] - coords[2])
    /\ \A i \in 1 .. Len(content.contours) :
          /\ content.contours[i].w <= coords[3] - coords[1]
          /\ content.contours[i].h <= coords[4] - coords[2]

\* Bounding rectangles of all contours: one below the minimum size, and one
\* of a glyph around the canvas's centre.
Rects == {<<140, 190, 12, 15>>, <<98, 64, 105, 272>>}

BlankRaster ==
    [found |-> FALSE, rect |-> <<0, 0, 0, 0>>,
     content |-> [q \in QuadrantNames |-> EmptyContent]]

\* Binary rasters over the contents in cs: the blank one, and with a
\* foreground pixel somewhere a bounding rectangle and the regions' contents.
RastersOver(cs) ==
    {BlankRaster} \cup
    {r \in [found : {TRUE}, rect : Rects, content : [QuadrantNames -> cs]] :
        /\ \E q \in QuadrantNames : r.content[q] # EmptyContent
        /\ \A q \in QuadrantNames : Fits(r.content[q], Quadrants(BoundingBox(r))[q])}

(***************************************************************************)
(* Decode calls: recognize_cistercian_numeral.  dec[c] is the state of     *)
(* call c:                                                                 *)
(*   image         the argument: the binary raster preprocess_image makes  *)
(*                 of it (raster), and the stage at which OpenCV or numpy  *)
(*                 raises on it, if any (fault)                            *)
(*   pc            the stage the call is at                                *)
(*   binary_image, structure, digits   the locals                          *)
(*   info, source  per place value: what detect_features_in_quadrant       *)
(*                 decided from, and the quadrant whose coordinates it     *)
(*                 was given                                               *)
(*   result, caught   the value returned; whether the except clause ran    *)
(*   trace         the stages completed, in order                          *)
(***************************************************************************)
DecStages == <<"preprocess", "segment", "units", "tens", "hundreds", "thousands", "combine">>

StageSet == {DecStages[i] : i \in DOMAIN DecStages}

\* A mutant of the stage order: the tens digit is never read.
StageAfterSkipTens(stage) ==
    IF stage = "combine" THEN "done"
    ELSE IF stage = "units" THEN "hundreds"
    ELSE DecStages[(CHOOSE i \in DOMAIN DecStages : DecStages[i] = stage) + 1]

\* The stage after a stage
StageAfter(stage) ==
    IF stage = "combine" THEN "done"
    ELSE DecStages[(CHOOSE i \in DOMAIN DecStages : DecStages[i] = stage) + 1]

\* The quadrant recognize_cistercian_numeral reads each place value from
DecQuadrant(place) ==
    CASE place = "units"     -> "bottom-right"
      [] place = "tens"      -> "top-right"
      [] place = "hundreds"  -> "bottom-left"
      [] OTHER               -> "top-left"

NoStructure ==
    [stem |-> <<0, 0, 0, 0>>, quadrants |-> [q \in QuadrantNames |-> <<0, 0, 0, 0>>]]

NoInfo == [digit |-> 0, exit |-> "none", features |-> NoFeatures, quadrant_name |-> "unknown"]

DecCall(raster, fault) ==
    [image        |-> [raster |-> raster, fault |-> fault],
     pc           |-> "preprocess",
     binary_image |-> BlankRaster,
     structure    |-> NoStructure,
     digits       |-> [p \in Places |-> 0],
     info         |-> [p \in Places |-> NoInfo],
     source       |-> [p \in Places |-> "none"],
     result       |-> 0,
     caught       |-> FALSE,
     trace        |-> <<>>]

\* The stage runs to its end: nothing raises in it on this image.
Runs(c, stage) == dec[c].pc = stage /\ dec[c].image.fault # stage

\* binary_image = preprocess_image(image)
DecPreprocess(c) ==
    /\ Runs(c, "preprocess")
    /\ dec' = [dec EXCEPT ![c] =
                 [@ EXCEPT !.binary_image = dec[c].image.raster,
                           !.pc = "segment",
                           !.trace = Append(@, "preprocess")]]
    /\ UNCHANGED <<enc, det, files>>

\* structure = find_stem_and_quadrants(binary_image); the dict it returns is
\* never empty, so `if not structure` is never taken
DecSegment(c) ==
    /\ Runs(c, "segment")
    /\ dec' = [dec EXCEPT ![c] =
                 [@ EXCEPT !.structure = find_stem_and_quadrants(dec[c].binary_image),
                           !.pc = "units",
                           !.trace = Append(@, "segment")]]
    /\ UNCHANGED <<enc, det, files>>

\* <place>_digit = detect_features_in_quadrant(binary_image, quadrants[...])
DecDetect(c) ==
    /\ dec[c].pc \in Places
    /\ Runs(c, dec[c].pc)
    /\ LET place == dec[c].pc
           q     == DecQuadrant(place)
           got   == DetectInfo(dec[c].binary_image, dec[c].structure.quadrants[q])
       IN  dec' = [dec EXCEPT ![c] =
                     [@ EXCEPT !.digits = [@ EXCEPT ![place] = got.digit],
                               !.info   = [@ EXCEPT ![place] = got],
                               !.source = [@ EXCEPT ![place] = q],
                               !.pc     = StageAfter(place),
                               !.trace  = Append(@, place)]]
    /\ UNCHANGED <<enc, det, files>>

\* A mutant of the combination: the hundreds weigh 1000 too.
CombineHundredsAsThousands(digits) ==
    digits["thousands"] * 1000 + digits["hundreds"] * 1000
        + digits["tens"] * 10 + digits["units"]

\* number = thousands_digit * 1000 + hundreds_digit * 100 + tens_digit * 10 + units_digit
Combine(digits) ==
    digits["thousands"] * 1000 + digits["hundreds"] * 100
        + digits["tens"] * 10 + digits["units"]

\* The combination and return number
DecCombine(c) ==
    /\ Runs(c, "combine")
    /\ dec' = [dec EXCEPT ![c] =
                 [@ EXCEPT !.result = Combine(dec[c].digits),
                           !.pc = "done",
                           !.trace = Append(@, "combine")]]
    /\ UNCHANGED <<enc, det, files>>

\* except Exception: log the error and return 0
DecExcept(c) ==
    /\ dec[c].pc \in StageSet
    /\ dec[c].pc = dec[c].image.fault
    /\ dec' = [dec EXCEPT ![c] = [@ EXCEPT !.result = 0, !.caught = TRUE, !.pc = "done"]]
    /\ UNCHANGED <<enc, det, files>>

DecStep(c) ==
    \/ DecPreprocess(c)
    \/ DecSegment(c)
    \/ DecDetect(c)
    \/ DecCombine(c)
    \/ DecExcept(c)

\* The stages at which a call may be given an image that raises: any of
\* those that call into OpenCV or numpy.
Faults == {"none", "preprocess", "segment", "units", "tens", "hundreds", "thousands"}

InitDec ==
    /\ enc = <<>>
    /\ \E r \in RastersOver(DecContents), f \in Faults : dec = <<DecCall(r, f)>>
    /\ det = <<>>
    /\ files = NoFiles

NextDec ==
    \/ \E c \in DOMAIN dec : DecPreprocess(c)
    \/ \E c \in DOMAIN dec : DecSegment(c)
    \/ \E c \in DOMAIN dec : DecDetect(c)
    \/ \E c \in DOMAIN dec : DecCombine(c)
    \/ \E c \in DOMAIN dec : DecExcept(c)

SpecDec == InitDec /\ [][NextDec]_vars

\* Decode calls as runs: a call is a sequential function body, so a
\* statement that can run does.  The rasters hold a diagonal stroke in any
\* of the quadrants.
StageRasters ==
    RastersOver({EmptyContent, [filled |-> 600, contours |-> <<Diag>>]})

InitStages ==
    /\ enc = <<>>
    /\ \E r \in StageRasters, f \in Faults : dec = <<DecCall(r, f)>>
    /\ det = <<>>
    /\ files = NoFiles

SpecStages == InitStages /\ [][NextDec]_vars /\ WF_vars(NextDec)

(***************************************************************************)
(* Decode calls on rasters whose contours have bounding rectangles of all  *)
(* sizes around the segmenter's minimum: a speck at the rectangle's        *)
(* top-left and one at its bottom-right corner, each in the quadrant that  *)
(* the segmentation puts it in.                                            *)
(***************************************************************************)
Speck == [w |-> 1, h |-> 1, area |-> 0, approx |-> <<<<0, 0>>>>]

SegRects ==
    {<<x, y, w, h>> : x \in {0, 37}, y \in {0, 58},
                      w \in {1, 19, 20, 21, 105}, h \in {1, 19, 20, 21, 272}}

\* The quadrant, of those the segmenter makes of a rectangle, holding (px, py)
QuadrantOf(rect, px, py) ==
    LET box == BoundingBox([found |-> TRUE, rect |-> rect])
        quads == Quadrants(box)
    IN  CHOOSE q \in QuadrantNames :
            /\ (px < quads["top-right"][1]) = (q \in {"top-left", "bottom-left"})
            /\ (py < quads["bottom-left"][2]) = (q \in {"top-left", "top-right"})

SegRasters ==
    {BlankRaster} \cup
    {[found |-> TRUE, rect |-> rect,
      content |-> [q \in QuadrantNames |->
                     LET first == QuadrantOf(rect, rect[1], rect[2])
                         last  == QuadrantOf(rect, rect[1] + rect[3] - 1, rect[2] + rect[4] - 1)
                         count == (IF q = first THEN 1 ELSE 0)
                                  + (IF q = last /\ (rect[3] > 1 \/ rect[4] > 1) THEN 1 ELSE 0)
                     IN  [filled |-> count, contours |-> [i \in 1 .. count |-> Speck]]]] :
        rect \in SegRects}

\* An image may be one OpenCV refuses to convert or resize; a raster that
\* preprocess_image returned is a 300 x 400 array of 0 and 255.
InitSegment ==
    /\ enc = <<>>
    /\ \E r \in SegRasters, f \in {"none", "preprocess"} : dec = <<DecCall(r, f)>>
    /\ det = <<>>
    /\ files = NoFiles

SpecSegment == InitSegment /\ [][NextDec]_vars

(***************************************************************************)
(* Calls of detect_features_in_quadrant as the decoder makes them: on a    *)
(* raster and the coordinates its segmentation gives quadrant `role`.      *)
(***************************************************************************)
\* A raster with this content in one quadrant and nothing in the others.
RasterWith(rect, role, content) ==
    IF content = EmptyContent THEN BlankRaster
    ELSE [found |-> TRUE, rect |-> rect,
          content |-> [q \in QuadrantNames |-> IF q = role THEN content ELSE EmptyContent]]

DetCall(binary_image, role) ==
    [binary_image    |-> binary_image,
     role            |-> role,
     quadrant_coords |-> find_stem_and_quadrants(binary_image).quadrants[role],
     pc              |-> "call",
     info            |-> NoInfo]

\* detect_features_in_quadrant(binary_image, quadrant_coords) returns
DetReturn ==
    /\ det.pc = "call"
    /\ det' = [det EXCEPT !.info = DetectInfo(det.binary_image, det.quadrant_coords),
                          !.pc = "returned"]
    /\ UNCHANGED <<enc, dec, files>>

InitDetect ==
    /\ enc = <<>>
    /\ dec = <<>>
    /\ files = NoFiles
    /\ \E rect \in Rects, role \in QuadrantNames, content \in AllContents :
          /\ Fits(content, Quadrants(BoundingBox(RasterWith(rect, role, content)))[role])
          /\ det = DetCall(RasterWith(rect, role, content), role)

NextDetect == DetReturn

SpecDetect == InitDetect /\ [][NextDetect]_vars

(***************************************************************************)
(* Calls running at once, as the request handlers of src/app.py make them: *)
(* NumEncoders calls of number_to_cistercian_image and one call of         *)
(* recognize_cistercian_numeral, their statements interleaved.             *)
(***************************************************************************)
ConcNumbers == {-1, 0, 7}

ConcRasters ==
    {BlankRaster,
     RasterWith(<<98, 64, 105, 272>>, "top-right", [filled |-> 600, contours |-> <<Diag>>])}

ConcFaults == {"none", "tens"}

Init ==
    /\ enc \in [1 .. NumEncoders ->
                  {EncCall("number_to_cistercian_image", n) : n \in ConcNumbers}]
    /\ dec \in [1 .. 1 -> {DecCall(r, f) : r \in ConcRasters, f \in ConcFaults}]
    /\ det = <<>>
    /\ files = NoFiles

Next ==
    \/ NextEnc
    \/ NextDec

Spec == Init /\ [][Next]_vars

(***************************************************************************)
(* Properties of the encoder.                                              *)
(***************************************************************************)
\* Every draw_digit call of the call has been made.
AllDrawn(e) == e.pc \in {"save", "return", "done"}

\* C1: encode(n) with n < 0 or n > 9999 fails with the range error and the
\* failing call has drawn nothing, not even the stem (entered through
\* number_to_cistercian_image it has not even created the canvas); with n in
\* [0, 9999] the call never raises, is never stuck before it returns, and
\* returns an image.
C1_RangeErrorBeforeDrawing ==
    \A c \in DOMAIN enc :
        LET e == enc[c]
        IN  /\ (e.number < 0 \/ e.number > 9999) =>
                  /\ e.pc \in {"start", "symbol", "raised"}
                  /\ e.img = {}
                  /\ e.marks = [q \in QuadrantNames |-> {}]
                  /\ e.entry = "number_to_cistercian_image" => ~e.created
                  /\ e.pc = "raised" => e.error = "ValueError"
                  /\ e.pc # "raised" => ENABLED EncStep(c)
                  /\ e.result.status = "pending"
            /\ (e.number >= 0 /\ e.number <= 9999) =>
                  /\ e.pc # "raised"
                  /\ e.error = "none"
                  /\ e.pc # "done" => ENABLED EncStep(c)
                  /\ e.pc = "done" => e.result.status = "ok" /\ Stem \in e.result.image

\* C1 witness: encode(10000) has raised, with no canvas created.
C1_Witness ==
    \E c \in DOMAIN enc :
        /\ enc[c].number = 10000
        /\ enc[c].entry = "number_to_cistercian_image"
        /\ enc[c].pc = "raised"
        /\ ~enc[c].created

\* C2 as claimed: looking up encode(n) in the exact-match index finds n, for
\* every n in [0, 9999], 0 included.
C2_RoundTripEveryValue ==
    \A c \in DOMAIN enc :
        enc[c].lookup.done =>
            enc[c].lookup.found /\ enc[c].lookup.value = enc[c].number

\* C2, amended: for every n in [1, 9999] looking up encode(n) in the
\* exact-match index finds n (so no two values in [0, 9999] are drawn alike);
\* the reference set holds no render for 0 and the lookup of encode(0) misses.
C2_RoundTripFromOne ==
    \A c \in DOMAIN enc :
        LET e == enc[c]
        IN  /\ e.lookup.done =>
                  IF e.number = 0 THEN ~e.lookup.found
                  ELSE e.lookup.found /\ e.lookup.value = e.number
            /\ (e.number >= 0 /\ e.number <= 9999) => e.pc # "raised"

\* C2 witness: encode(1234) was looked up and 1234 was found.
C2_Witness ==
    \E c \in DOMAIN enc :
        /\ enc[c].number = 1234
        /\ enc[c].lookup.done
        /\ enc[c].lookup.found
        /\ enc[c].lookup.value = 1234

ReflectX(prims, axis) ==
    {<<2 * axis - p[1], p[2], 2 * axis - p[3], p[4], p[5]>> : p \in prims}

ReflectY(prims, axis) ==
    {<<p[1], 2 * axis - p[2], p[3], 2 * axis - p[4], p[5]>> : p \in prims}

\* The digit a call has drawn in quadrant q, -1 while none was.
DigitDrawnIn(e, q) ==
    IF \E p \in Places : e.placed[p] = q
    THEN PlaceDigit(e.number, CHOOSE p \in Places : e.placed[p] = q)
    ELSE -1

\* C5: when the same digit d in 1..9 was drawn in top-right and top-left (or
\* bottom-right and bottom-left), one's primitives are the other's with x
\* reflected about the stem's x; when the same digit was drawn in a top and
\* the bottom quadrant of the same side, one's primitives are the other's with
\* y reflected about the canvas's vertical centre; the stem's two ends are
\* symmetric about that centre.
C5_MirrorLaw ==
    \A c \in DOMAIN enc :
        LET e    == enc[c]
            same(qa, qb) == DigitDrawnIn(e, qa) \in 1 .. 9
                            /\ DigitDrawnIn(e, qa) = DigitDrawnIn(e, qb)
        IN  /\ \A side \in {<<"top-left", "top-right">>, <<"bottom-left", "bottom-right">>} :
                  same(side[1], side[2]) =>
                      /\ e.marks[side[2]] # {}
                      /\ e.marks[side[2]] = ReflectX(e.marks[side[1]], Stem[1])
            /\ \A side \in {<<"top-left", "bottom-left">>, <<"top-right", "bottom-right">>} :
                  same(side[1], side[2]) =>
                      /\ e.marks[side[2]] # {}
                      /\ e.marks[side[2]] = ReflectY(e.marks[side[1]], Height \div 2)
            /\ Stem[2] + Stem[4] = 2 * (Height \div 2)

\* C5 witness: encode(3333) has drawn digit 3 in all four quadrants.
C5_Witness ==
    \E c \in DOMAIN enc :
        /\ enc[c].number = 3333
        /\ enc[c].pc = "done"
        /\ \A q \in QuadrantNames : enc[c].marks[q] # {}

\* A primitive other than the stem lies in quadrant q of the canvas.
LiesIn(p, q) ==
    /\ IF q \in {"top-right", "bottom-right"}
       THEN p[1] >= Width \div 2 /\ p[3] >= Width \div 2
            /\ (p[1] > Width \div 2 \/ p[3] > Width \div 2)
       ELSE p[1] <= Width \div 2 /\ p[3] <= Width \div 2
            /\ (p[1] < Width \div 2 \/ p[3] < Width \div 2)
    /\ IF q \in {"top-left", "top-right"}
       THEN p[2] < Height \div 2 /\ p[4] < Height \div 2
       ELSE p[2] > Height \div 2 /\ p[4] > Height \div 2

\* The number of cv2.line calls of each digit 1..9.
StrokeCount(d) == IF d = 0 THEN 0 ELSE <<1, 1, 1, 1, 2, 1, 2, 2, 3>>[d]

\* C8: once the four digits are drawn, the canvas is the stem plus what the
\* draw_digit calls drew; a place whose digit is 0 has no primitive in its
\* quadrant, a place whose digit is not 0 has that digit's primitives, all in
\* its quadrant; encode(0) has drawn the stem alone.
C8_ZeroDrawsNothing ==
    \A c \in DOMAIN enc :
        LET e == enc[c]
        IN  AllDrawn(e) =>
              /\ e.img = {Stem} \cup UNION {e.marks[q] : q \in QuadrantNames}
              /\ \A pl \in Places :
                    LET d == PlaceDigit(e.number, pl)
                        q == e.placed[pl]
                    IN  /\ q \in QuadrantNames
                        /\ Cardinality({p \in e.img \ {Stem} : LiesIn(p, q)}) = StrokeCount(d)
                        /\ Cardinality(e.marks[q]) = StrokeCount(d)
              /\ \A p \in e.img \ {Stem} : \E q \in QuadrantNames : LiesIn(p, q)
              /\ e.number = 0 => e.img = {Stem}

\* C8 witness: encode(1020) is done: two places are 0 and two are not.
C8_Witness ==
    \E c \in DOMAIN enc :
        /\ enc[c].number = 1020
        /\ enc[c].pc = "done"
        /\ enc[c].marks["top-right"] = {}
        /\ enc[c].marks["top-left"] # {}

(***************************************************************************)
(* Properties of the decoder.                                              *)
(***************************************************************************)
\* C3: every digit a decode call holds is in 0..9; a call that is not done
\* can always go on (a stage that raises goes to the except clause, nothing
\* leaves the call); a call that is done has returned an integer in
\* [0, 9999]: 0 when a stage raised.
C3_DecodeNeverFails ==
    \A c \in DOMAIN dec :
        LET d == dec[c]
        IN  /\ \A p \in Places : d.digits[p] \in 0 .. 9
            /\ d.pc \in StageSet \cup {"done"}
            /\ d.pc # "done" =>
                  \/ d.pc \in Places /\ Runs(c, d.pc)
                  \/ ENABLED (\/ DecPreprocess(c) \/ DecSegment(c)
                              \/ DecCombine(c) \/ DecExcept(c))
            /\ d.pc = "done" =>
                  /\ d.result \in 0 .. 9999
                  /\ d.caught <=> d.image.fault # "none"
                  /\ d.caught => d.result = 0

\* C3 witness: a call whose hundreds stage raised, after a non-zero units
\* digit was read, has returned 0.
C3_Witness ==
    \E c \in DOMAIN dec :
        /\ dec[c].pc = "done"
        /\ dec[c].caught
        /\ dec[c].image.fault = "hundreds"
        /\ dec[c].digits["units"] # 0
        /\ dec[c].result = 0

\* C6 as claimed: a quadrant classified from exactly one diagonal line, no
\* horizontal and no vertical one, gives 2 when the decoder read it from
\* top-right or bottom-left and 6 otherwise, and the quadrant name the
\* classifier used is that of the quadrant the decoder passed.
C6_DiagonalByRole ==
    \A c \in DOMAIN dec : \A p \in Places :
        LET i == dec[c].info[p]
        IN  (/\ i.exit = "cascade"
             /\ 50 * i.features.filled_area >= i.features.quadrant_area
             /\ i.features.diagonal_lines = 1
             /\ i.features.horizontal_lines = 0
             /\ i.features.vertical_lines = 0) =>
                /\ i.quadrant_name = dec[c].source[p]
                /\ i.digit = IF dec[c].source[p] \in {"top-right", "bottom-left"}
                             THEN 2 ELSE 6

\* C7: detect_features_in_quadrant returns 0 for a region with no contour
\* or with less than 0.02 of its pixels set, whatever its contours are and
\* whichever quadrant it is.
C7_EmptyIsZero ==
    det.pc = "returned" =>
        LET content == det.binary_image.content[det.role]
            area    == (det.quadrant_coords[3] - det.quadrant_coords[1])
                       * (det.quadrant_coords[4] - det.quadrant_coords[2])
        IN  (Len(content.contours) = 0 \/ 50 * content.filled < area) =>
                det.info.digit = 0

\* C7 witness: a top-left region holding a horizontal line and a rectangle's
\* worth of contours, under 0.02 full, was run through the cascade and is 0.
C7_Witness ==
    /\ det.pc = "returned"
    /\ det.role = "top-left"
    /\ det.info.exit = "cascade"
    /\ det.info.features.horizontal_lines >= 1
    /\ det.info.features.num_contours = 2
    /\ 50 * det.info.features.filled_area < det.info.features.quadrant_area
    /\ det.info.digit = 0

C4_SameQuadrantForPlace ==
    \A e \in DOMAIN enc : \A d \in DOMAIN dec : \A p \in Places :
        (enc[e].placed[p] # "none" /\ dec[d].source[p] # "none") =>
            enc[e].placed[p] = dec[d].source[p]

\* What number_to_cistercian_image(n) returns when it runs alone.
AloneEncode(n) ==
    IF n < 0 \/ n > 9999 THEN [pc |-> "raised", result |-> NoResult]
    ELSE [pc |-> "done", result |-> [status |-> "ok", image |-> DrawCistercianSymbol(n)]]

\* What recognize_cistercian_numeral(image) returns when it runs alone.
AloneDecode(image) ==
    IF image.fault # "none" THEN 0
    ELSE LET quads == find_stem_and_quadrants(image.raster).quadrants
             digit(q) == detect_features_in_quadrant(image.raster, quads[q])
         IN  digit("top-left") * 1000 + digit("bottom-left") * 100
             + digit("top-right") * 10 + digit("bottom-right")

OrderedRules(f, role) ==
    LET h == f.horizontal_lines
        v == f.vertical_lines
        d == f.diagonal_lines
        r == f.rectangles
        n == f.num_contours
        filled == f.filled_area
        area   == f.quadrant_area
        mirrored == role \in {"top-right", "bottom-left"}
    IN  IF 50 * filled < area \/ n = 0 THEN 0
        ELSE IF h = 1 /\ v = 0 /\ d = 0 THEN 1
        ELSE IF d = 1 /\ h = 0 /\ v = 0 THEN (IF mirrored THEN 2 ELSE 6)
        ELSE IF h >= 1 /\ d >= 1 /\ v = 0 THEN (IF mirrored THEN 3 ELSE 7)
        ELSE IF h >= 1 /\ v >= 1 THEN 4
        ELSE IF r >= 1 \/ 10 * filled > 3 * area \/ n >= 3 THEN 5
        ELSE IF d >= 2 THEN 8
        ELSE IF r >= 1 \/ 4 * filled > area THEN 9
        ELSE IF v >= 1 THEN 1
        ELSE IF d >= 1 THEN 2
        ELSE IF h >= 1 THEN 1
        ELSE IF 10 * filled > area THEN 5
        ELSE IF filled > 0 THEN 1
        ELSE 0

\* C11 as claimed: the digit detect_features_in_quadrant returns for a
\* quadrant is the digit of the first matching rule of the documented list,
\* for the features it counted and the quadrant the decoder passed.
C11_FirstMatchingRule ==
    (det.pc = "returned" /\ det.info.exit # "invalid") =>
        det.info.digit = OrderedRules(det.info.features, det.role)

\* C12: the segmenter returns on every binary raster, and what it returns
\* is the four boxes that split a box <<x, y, w, h>> at x + w div 2 and
\* y + h div 2: the whole raster when the raster has no contour or the
\* contours' bounding rectangle is under 20 wide or under 20 high, and that
\* rectangle otherwise.
C12_SegmenterFallsBack ==
    \A c \in DOMAIN dec :
        LET d    == dec[c]
            b    == d.binary_image
            box  == IF ~b.found \/ b.rect[3] < 20 \/ b.rect[4] < 20
                    THEN <<0, 0, 300, 400>> ELSE b.rect
            sx   == box[1] + (box[3] \div 2)
            cy   == box[2] + (box[4] \div 2)
            quad == d.structure.quadrants
        IN  /\ d.pc = "segment" => ENABLED DecSegment(c)
            /\ (\E i \in DOMAIN d.trace : d.trace[i] = "segment") =>
                  /\ quad["top-left"]     = <<box[1], box[2], sx, cy>>
                  /\ quad["top-right"]    = <<sx, box[2], box[1] + box[3], cy>>
                  /\ quad["bottom-left"]  = <<box[1], cy, sx, box[2] + box[4]>>
                  /\ quad["bottom-right"] = <<sx, cy, box[1] + box[3], box[2] + box[4]>>

\* C12 witness: a raster whose contours span exactly 20 by 20 at (37, 58)
\* was segmented into four boxes of 10 by 10.
C12_Witness ==
    \E c \in DOMAIN dec :
        /\ dec[c].binary_image.found
        /\ dec[c].binary_image.rect = <<37, 58, 20, 20>>
        /\ dec[c].pc = "units"
        /\ dec[c].structure.quadrants["bottom-right"] = <<47, 68, 57, 78>>

StagesInOrder ==
    \A c \in DOMAIN dec :
        LET d == dec[c]
            n == Len(d.trace)
        IN  /\ n <= Len(DecStages)
            /\ \A i \in 1 .. n : d.trace[i] = DecStages[i]
            /\ d.pc # "done" => n < Len(DecStages) /\ d.pc = DecStages[n + 1]
            /\ (d.pc = "done" /\ ~d.caught) => d.trace = DecStages
            /\ (d.pc = "done" /\ d.caught) =>
                  /\ n < Len(DecStages)
                  /\ DecStages[n + 1] = d.image.fault
                  /\ d.result = 0
            /\ \A p \in Places :
                  (d.source[p] # "none") <=> (\E i \in 1 .. n : d.trace[i] = p)

FeatureVectors(quadrant_area) ==
    [horizontal_lines : 0 .. 2, vertical_lines : 0 .. 2, diagonal_lines : 0 .. 2,
     rectangles : 0 .. 2, num_contours : 0 .. 3,
     filled_area : {0} \cup FilledLevels, quadrant_area : {quadrant_area}]

\* The digits the classification returns on the quadrants the decoder
\* passes it, over these feature vectors.
ReturnedDigits ==
    UNION {LET coords == Quadrants(BoundingBox([found |-> TRUE, rect |-> rect]))[role]
               name   == QuadrantName(coords)
               area   == (coords[3] - coords[1]) * (coords[4] - coords[2])
           IN  {Cascade(f, name, PixelOn * f.filled_area) : f \in FeatureVectors(area)} :
           rect \in Rects, role \in QuadrantNames}

\* C14 as claimed: each digit 0..9 is returned by the classification for
\* some feature vector and some quadrant the decoder passes, and a call of
\* detect_features_in_quadrant that has returned has returned one of them.
C14_EveryDigitPossible ==
    /\ \A d \in 0 .. 9 : d \in ReturnedDigits
    /\ det.pc = "returned" => det.info.digit \in ReturnedDigits

====
